---------------------------- MODULE Spec2Model ----------------------------
(***************************************************************************)
(* A model of src/src/usage_tracker.py: the in-memory UsageTracker (a      *)
(* bounded deque of usage events guarded by one re-entrant lock), its      *)
(* input normalisation (_safe_int, normalize_token_stats) and its read     *)
(* views, used by several threads.                                         *)
(*                                                                         *)
(* Python values are records [k, n, s]: k the type, n the number (the      *)
(* value of an int or bool, a float's value in tenths, a list's length),   *)
(* s the characters of a str.  A str is a sequence of one-character        *)
(* strings, so that strip() and int() work on its characters.              *)
(***************************************************************************)
EXTENDS Integers, Sequences, FiniteSets, TLC

\* ------------------------------------------------------------ bounds
\* The largest max_details a tracker is built with.
MaxCapacity == 3
\* The events the record calls of one behaviour build.
MaxRecords == 3
\* The calls of a finite set of calls.
MaxCalls == 3

\* ------------------------------------------------------------ Python values
PyNone == [k |-> "none", n |-> 0, s |-> <<>>]
PyInt(i) == [k |-> "int", n |-> i, s |-> <<>>]
PyBool(b) == [k |-> "bool", n |-> IF b THEN 1 ELSE 0, s |-> <<>>]
\* A float given in tenths: PyFloat(27) is 2.7.
PyFloat(tenths) == [k |-> "float", n |-> tenths, s |-> <<>>]
PyNaN == [k |-> "nan", n |-> 0, s |-> <<>>]
PyInf == [k |-> "inf", n |-> 1, s |-> <<>>]
PyStr(chars) == [k |-> "str", n |-> 0, s |-> chars]
\* A list of len elements (its elements are never read).
PyList(len) == [k |-> "list", n |-> len, s |-> <<>>]

\* bool(v): what `v or w` and `if not v` test.
Truthy(v) ==
    CASE v.k = "none" -> FALSE
      [] v.k \in {"int", "bool", "float", "list"} -> v.n # 0
      [] v.k \in {"nan", "inf"} -> TRUE
      [] v.k = "str" -> v.s # <<>>
      [] OTHER -> TRUE

\* a or b
PyOr(a, b) == IF Truthy(a) THEN a ELSE b

IsSpace(c) == c = " "

RECURSIVE LStrip(_)
LStrip(s) == IF s # <<>> /\ IsSpace(Head(s)) THEN LStrip(Tail(s)) ELSE s

RECURSIVE RStrip(_)
RStrip(s) ==
    IF s # <<>> /\ IsSpace(s[Len(s)]) THEN RStrip(SubSeq(s, 1, Len(s) - 1)) ELSE s

\* str.strip()
Strip(s) == RStrip(LStrip(s))

Digits == <<"0", "1", "2", "3", "4", "5", "6", "7", "8", "9">>

IsDigit(c) == \E i \in 1..Len(Digits) : Digits[i] = c

DigitVal(c) == (CHOOSE i \in 1..Len(Digits) : Digits[i] = c) - 1

RECURSIVE DigitsVal(_)
DigitsVal(s) ==
    IF s = <<>> THEN 0
    ELSE 10 * DigitsVal(SubSeq(s, 1, Len(s) - 1)) + DigitVal(s[Len(s)])

\* int(str): surrounding whitespace is dropped, then an optional sign and
\* one or more digits; anything else is a ValueError.
ParseInt(s) ==
    LET t == Strip(s)
        signed == t # <<>> /\ Head(t) \in {"-", "+"}
        d == IF signed THEN Tail(t) ELSE t
    IN  IF d # <<>> /\ \A i \in 1..Len(d) : IsDigit(d[i])
        THEN [ok |-> TRUE,
              n |-> IF signed /\ Head(t) = "-" THEN 0 - DigitsVal(d) ELSE DigitsVal(d)]
        ELSE [ok |-> FALSE, n |-> 0]

\* int(v): [ok, n]; ok is FALSE when int() raises (ValueError for a NaN or
\* a non-numeric str, OverflowError for an infinity, TypeError for None or
\* a list).
PyIntOf(v) ==
    CASE v.k \in {"int", "bool"} -> [ok |-> TRUE, n |-> v.n]
      [] v.k = "float" ->
            [ok |-> TRUE,
             n |-> IF v.n >= 0 THEN v.n \div 10 ELSE 0 - ((0 - v.n) \div 10)]
      [] v.k = "str" -> ParseInt(v.s)
      [] OTHER -> [ok |-> FALSE, n |-> 0]

\* _safe_int: int(value or 0) if that is > 0, else 0; 0 on any exception.
safe_int(value) ==
    LET r == PyIntOf(PyOr(value, PyInt(0)))
    IN  IF r.ok THEN (IF r.n > 0 THEN r.n ELSE 0) ELSE 0

\* ------------------------------------------------------------ token stats
\* The field names normalize_token_stats looks up.
TokenKeys ==
    {"input_tokens", "prompt_tokens", "inputTokens",
     "output_tokens", "completion_tokens", "outputTokens",
     "reasoning_tokens", "thoughts_tokens", "reasoningTokens",
     "cached_tokens", "cache_read_input_tokens", "cachedTokens",
     "total_tokens", "totalTokenCount", "totalTokens"}

\* A dict over the token field names; an absent key reads None, as
\* dict.get gives it.
EmptyDict == [key \in TokenKeys |-> PyNone]

\* The tokens argument: None, a dict, or a value of any other type.
TokNone == [k |-> "none", v |-> PyNone, d |-> EmptyDict]
TokDict(d) == [k |-> "dict", v |-> PyNone, d |-> d]
TokOther(v) == [k |-> "other", v |-> v, d |-> EmptyDict]

\* bool(tokens): a dict without keys, None and a falsy value are falsy.
TokTruthy(tokens) ==
    CASE tokens.k = "none" -> FALSE
      [] tokens.k = "dict" -> \E key \in TokenKeys : tokens.d[key] # PyNone
      [] OTHER -> Truthy(tokens.v)

\* token_data.get(a) or token_data.get(b) or token_data.get(c)
GetFirst(d, a, b, c) == PyOr(PyOr(d[a], d[b]), d[c])

ZeroStats ==
    [input_tokens |-> 0, output_tokens |-> 0, reasoning_tokens |-> 0,
     cached_tokens |-> 0, total_tokens |-> 0]

\* A fallback sum that leaves the reasoning tokens out.
FallbackTotalDropsReasoning(input_tokens, output_tokens, reasoning_tokens) ==
    input_tokens + output_tokens

\* total_tokens = input_tokens + output_tokens + reasoning_tokens
FallbackTotal(input_tokens, output_tokens, reasoning_tokens) ==
    input_tokens + output_tokens + reasoning_tokens

\* normalize_token_stats: [raised, stats].  token_data = tokens or {}; a
\* truthy tokens that is no dict has no .get, and the AttributeError of
\* line 25 is caught by nothing.
normalize_token_stats(tokens) ==
    IF tokens.k = "other" /\ TokTruthy(tokens)
    THEN [raised |-> TRUE, stats |-> ZeroStats]
    ELSE
      LET token_data == IF TokTruthy(tokens) THEN tokens.d ELSE EmptyDict
          input_tokens ==
              safe_int(GetFirst(token_data, "input_tokens", "prompt_tokens", "inputTokens"))
          output_tokens ==
              safe_int(GetFirst(token_data, "output_tokens", "completion_tokens", "outputTokens"))
          reasoning_tokens ==
              safe_int(GetFirst(token_data, "reasoning_tokens", "thoughts_tokens", "reasoningTokens"))
          cached_tokens ==
              safe_int(GetFirst(token_data, "cached_tokens", "cache_read_input_tokens", "cachedTokens"))
          total_tokens ==
              safe_int(GetFirst(token_data, "total_tokens", "totalTokenCount", "totalTokens"))
      IN  [raised |-> FALSE,
           stats |->
             [input_tokens |-> input_tokens,
              output_tokens |-> output_tokens,
              reasoning_tokens |-> reasoning_tokens,
              cached_tokens |-> cached_tokens,
              total_tokens |->
                  IF total_tokens = 0
                  THEN FallbackTotal(input_tokens, output_tokens, reasoning_tokens)
                  ELSE total_tokens]]

\* ------------------------------------------------------------ events
\* A timestamp is a float: a number of seconds, or NaN.
Ts(seconds) == [k |-> "num", n |-> seconds]
TsNaN == [k |-> "nan", n |-> 0]
\* timestamp=None
TsNone == [k |-> "none", n |-> 0]

\* a < b on floats: every comparison with a NaN is false.
FloatLt(a, b) == a.k = "num" /\ b.k = "num" /\ a.n < b.n

Unknown == <<"u", "n", "k", "n", "o", "w", "n">>
Dash == <<"-">>

\* (value or default).strip() or default, for a str or None value.
StrOrDefault(value, default) ==
    LET stripped == Strip(PyOr(value, PyStr(default)).s)
    IN  IF stripped # <<>> THEN stripped ELSE default

\* The event dict record() builds from its arguments, with `clock` what
\* time.time() returns.  [raised, event]: raised when normalize_token_stats
\* raises.
BuildEvent(a, clock) ==
    LET norm == normalize_token_stats(a.tokens)
    IN  [raised |-> norm.raised,
         event |->
           [api |-> StrOrDefault(a.api, Unknown),
            model |-> StrOrDefault(a.model, Unknown),
            source |-> StrOrDefault(a.source, Unknown),
            auth_index |-> StrOrDefault(PyOr(a.auth_index, a.source), Dash),
            failed |-> a.failed,
            status_code |->
                IF a.status_code # PyNone THEN safe_int(a.status_code) ELSE 0,
            error_message |-> Strip(PyOr(a.error_message, PyStr(<<>>)).s),
            tokens |-> norm.stats,
            timestamp |-> IF a.timestamp # TsNone THEN a.timestamp ELSE Ts(clock)]]

\* ------------------------------------------------------------ the deque
\* deque(maxlen=None) is unbounded.
Unbounded == 0 - 1

\* A deque that at maxlen drops its rightmost item instead of its leftmost.
DequeAppendDropsNewest(d, e) ==
    IF d.maxlen = Unbounded \/ Len(d.items) < d.maxlen
    THEN [d EXCEPT !.items = Append(d.items, e)]
    ELSE IF d.maxlen = 0 THEN d
    ELSE [d EXCEPT !.items = Append(SubSeq(d.items, 1, Len(d.items) - 1), e)]

\* A deque that takes the new item at its left end.
DequeAppendLeft(d, e) ==
    IF d.maxlen = Unbounded \/ Len(d.items) < d.maxlen
    THEN [d EXCEPT !.items = <<e>> \o d.items]
    ELSE IF d.maxlen = 0 THEN d
    ELSE [d EXCEPT !.items = <<e>> \o SubSeq(d.items, 1, Len(d.items) - 1)]

\* deque.append: at maxlen, the leftmost item is dropped.

DequeAppend(d, e) ==
    IF d.maxlen = Unbounded \/ Len(d.items) < d.maxlen
    THEN [d EXCEPT !.items = Append(d.items, e)]
    ELSE IF d.maxlen = 0 THEN d
    ELSE [d EXCEPT !.items = Append(Tail(d.items), e)]

\* deque(iterable, maxlen): the last maxlen items of the iterable.
DequeNew(items, maxlen) ==
    [items |->
        IF maxlen = Unbounded \/ Len(items) <= maxlen THEN items
        ELSE SubSeq(items, Len(items) - maxlen + 1, Len(items)),
     maxlen |-> maxlen]

\* [e for e in items if Keep(e)]
RECURSIVE SelectEvents(_, _)
SelectEvents(items, target) ==
    IF items = <<>> THEN <<>>
    ELSE IF Head(items).source # target
         THEN <<Head(items)>> \o SelectEvents(Tail(items), target)
         ELSE SelectEvents(Tail(items), target)

\* ------------------------------------------------------------ the views
\* 24 * 3600, the window of get_stats_24h in seconds.
Day == 24 * 3600

ZeroItem == [calls_24h |-> 0, success_24h |-> 0, failed_24h |-> 0, tokens_24h |-> 0]

\* An empty dict keyed by source.
EmptyStats == [s \in {} |-> ZeroItem]

\* The test with <= in place of <.
ExpiredLe(event, cutoff) ==
    event.timestamp.k = "num" /\ cutoff.k = "num" /\ event.timestamp.n <= cutoff.n

\* `if event["timestamp"] < cutoff: continue`
Expired(event, cutoff) == FloatLt(event.timestamp, cutoff)

\* One turn of the loop of get_stats_24h on an event inside the window:
\* stats.setdefault(source, zeros), then the four counters.
StatsAdd(stats, event) ==
    LET source == event.source
        item == IF source \in DOMAIN stats THEN stats[source] ELSE ZeroItem
        updated ==
            [calls_24h |-> item.calls_24h + 1,
             success_24h |-> item.success_24h + (IF event.failed THEN 0 ELSE 1),
             failed_24h |-> item.failed_24h + (IF event.failed THEN 1 ELSE 0),
             tokens_24h |-> item.tokens_24h + event.tokens.total_tokens]
    IN  [s \in DOMAIN stats \cup {source} |-> IF s = source THEN updated ELSE stats[s]]

RECURSIVE StatsLoop(_, _, _)
StatsLoop(events, cutoff, stats) ==
    IF events = <<>> THEN stats
    ELSE StatsLoop(Tail(events), cutoff,
                   IF Expired(Head(events), cutoff) THEN stats
                   ELSE StatsAdd(stats, Head(events)))

\* get_stats_24h after its copy: `events` the copied list, `clock` what
\* time.time() returns.
stats_24h(events, clock) == StatsLoop(events, Ts(clock - Day), EmptyStats)

RECURSIVE SumCalls(_, _)
SumCalls(stats, sources) ==
    IF sources = {} THEN 0
    ELSE LET s == CHOOSE x \in sources : TRUE
         IN  stats[s].calls_24h + SumCalls(stats, sources \ {s})

RECURSIVE Gcd(_, _)
Gcd(a, b) == IF b = 0 THEN a ELSE Gcd(b, a % b)

\* a / b on non-negative ints, b > 0: the quotient as a fraction in lowest
\* terms (the float Python returns is the nearest to it).
PyDiv(a, b) == [num |-> a \div Gcd(a, b), den |-> b \div Gcd(a, b)]

\* 0.0
FloatZero == [num |-> 0, den |-> 1]

\* a // b, the quotient rounded down, as a fraction.
PyFloorDiv(a, b) == [num |-> a \div b, den |-> 1]

\* The average taken with // in place of /.
AvgCallsFloor(total_calls, total_files) ==
    IF total_files # 0 THEN PyFloorDiv(total_calls, total_files) ELSE FloatZero

\* (total_calls / total_files) if total_files else 0.0
AvgCalls(total_calls, total_files) ==
    IF total_files # 0 THEN PyDiv(total_calls, total_files) ELSE FloatZero

\* get_aggregated_24h from the stats get_stats_24h returned.
aggregated_24h(stats) ==
    LET total_calls == SumCalls(stats, DOMAIN stats)
        total_files == Cardinality(DOMAIN stats)
    IN  [total_calls_24h |-> total_calls,
         total_files |-> total_files,
         avg_calls_per_file |-> AvgCalls(total_calls, total_files)]

\* 3600, the seconds of an hour.
Hour == 3600

\* dt.strftime("%Y-%m-%d") of the UTC datetime of ts: the calendar day, here
\* by its number since 1970-01-01 (each day has one such string).
DayKey(ts) == ts.n \div Day

\* dt.strftime("%H"): the hour of the day, 0..23, whatever the day.
HourKey(ts) == (ts.n % Day) \div Hour

\* An empty dict.
EmptyMap == [x \in {} |-> 0]

\* d[key] = n, losing what d held under key.
DictSet(d, key, n) == [x \in DOMAIN d \cup {key} |-> IF x = key THEN n ELSE d[x]]

\* d[key] = d.get(key, 0) + n
DictAdd(d, key, n) ==
    [x \in DOMAIN d \cup {key} |->
        IF x = key THEN (IF key \in DOMAIN d THEN d[key] ELSE 0) + n ELSE d[x]]

\* The dicts setdefault inserts for a new api and for a new model.
ZeroApi == [total_requests |-> 0, total_tokens |-> 0, models |-> EmptyMap]
ZeroModel == [total_requests |-> 0, total_tokens |-> 0, details |-> <<>>]

ZeroSnapshot ==
    [total_requests |-> 0, success_count |-> 0, failure_count |-> 0,
     total_tokens |-> 0, apis |-> EmptyMap,
     requests_by_day |-> EmptyMap, requests_by_hour |-> EmptyMap,
     tokens_by_day |-> EmptyMap, tokens_by_hour |-> EmptyMap]

\* datetime.fromtimestamp(ts, tz=timezone.utc) raises ValueError for a NaN.
FromTimestampRaises(ts) == ts.k # "num"

\* The detail dict of an event; its timestamp is dt.isoformat(), one string
\* per instant, here the instant itself.
Detail(event) ==
    [timestamp |-> event.timestamp,
     source |-> event.source,
     auth_index |-> event.auth_index,
     tokens |-> event.tokens,
     failed |-> event.failed]

\* A details list that takes the new detail at its front.
DetailsPrepend(details, detail) == <<detail>> \o details

\* model_data["details"].append(detail)
DetailsAppend(details, detail) == Append(details, detail)

\* A model entry that counts the request and not its tokens.
ModelAddNoTokens(model_data, token_total, detail) ==
    [total_requests |-> model_data.total_requests + 1,
     total_tokens |-> model_data.total_tokens,
     details |-> DetailsAppend(model_data.details, detail)]

\* The three updates of model_data.
ModelAdd(model_data, token_total, detail) ==
    [total_requests |-> model_data.total_requests + 1,
     total_tokens |-> model_data.total_tokens + token_total,
     details |-> DetailsAppend(model_data.details, detail)]

\* apis.setdefault(api_name, zeros), its two counters, and the entry of the
\* event's model in its models.
ApiAdd(apis, event, token_total) ==
    LET api_name == event.api
        model_name == event.model
        api_data == IF api_name \in DOMAIN apis THEN apis[api_name] ELSE ZeroApi
        model_data ==
            IF model_name \in DOMAIN api_data.models
            THEN api_data.models[model_name] ELSE ZeroModel
    IN  DictSet(apis, api_name,
            [total_requests |-> api_data.total_requests + 1,
             total_tokens |-> api_data.total_tokens + token_total,
             models |-> DictSet(api_data.models, model_name,
                                ModelAdd(model_data, token_total, Detail(event)))])

\* A histogram that keeps the last amount under a key, not the sum.
HistAddOverwrites(hist, key, n) == DictSet(hist, key, n)

\* hist[key] = hist.get(key, 0) + n
HistAdd(hist, key, n) == DictAdd(hist, key, n)

\* One turn of the loop of snapshot() on an event fromtimestamp accepts.
SnapshotAdd(acc, event) ==
    LET day_key == DayKey(event.timestamp)
        hour_key == HourKey(event.timestamp)
        token_total == safe_int(PyInt(event.tokens.total_tokens))
    IN  [acc EXCEPT
           !.total_tokens = @ + token_total,
           !.failure_count = @ + (IF event.failed THEN 1 ELSE 0),
           !.success_count = @ + (IF event.failed THEN 0 ELSE 1),
           !.requests_by_day = HistAdd(@, day_key, 1),
           !.requests_by_hour = HistAdd(@, hour_key, 1),
           !.tokens_by_day = HistAdd(@, day_key, token_total),
           !.tokens_by_hour = HistAdd(@, hour_key, token_total),
           !.apis = ApiAdd(@, event, token_total)]

RECURSIVE SnapshotLoop(_, _)
SnapshotLoop(events, acc) ==
    IF events = <<>> THEN [raised |-> FALSE, result |-> acc]
    ELSE IF FromTimestampRaises(Head(events).timestamp)
         THEN [raised |-> TRUE, result |-> ZeroSnapshot]
         ELSE SnapshotLoop(Tail(events), SnapshotAdd(acc, Head(events)))

\* snapshot() after its copy: [raised, result].
snapshot_result(events) ==
    SnapshotLoop(events, [ZeroSnapshot EXCEPT !.total_requests = Len(events)])

\* ------------------------------------------------------------ state
VARIABLES
    events,       \* self._events: [items, maxlen], the deque and its maxlen
    max_details,  \* the capacity UsageTracker was built with
    lock,         \* the thread that holds self._lock, or NoThread
    now,          \* what time.time() returns
    pc,           \* where each thread is in the call it makes
    loc,          \* each thread's arguments, local variables and result
    built,        \* the event dicts the record calls have built so far
    recent,       \* history: the last max_details events appended, in the
                  \* order of their append, while no reset has run
    had_reset,    \* history: a reset has changed the store
    budget        \* the calls the threads have still to issue, or NoBudget

vars == <<events, max_details, lock, now, pc, loc, built, recent, had_reset, budget>>

Threads == {"p1", "p2"}
NoThread == "none"

\* The budget of threads that are given no finite set of calls.
NoBudget == 0 - 1

\* The instants the clock shows: the start, a second later, an hour later,
\* and 24 hours and a second after the start.
ClockTimes == {0, 1, Hour, Day + 1}

\* record()'s arguments, all but the source left at their defaults.
Args(source) ==
    [api |-> PyNone, model |-> PyNone, source |-> source, auth_index |-> PyNone,
     failed |-> FALSE, tokens |-> TokNone, status_code |-> PyNone,
     error_message |-> PyNone, timestamp |-> TsNone]

NoEvent == BuildEvent(Args(PyNone), 0).event

ZeroAggregated ==
    [total_calls_24h |-> 0, total_files |-> 0, avg_calls_per_file |-> FloatZero]

\* A thread between two calls.
LocIdle ==
    [op |-> "none", event |-> NoEvent, source |-> PyNone, seen |-> <<>>,
     before |-> 0, kept |-> <<>>, copy |-> <<>>, clock |-> 0, removed |-> 0,
     stats |-> EmptyStats, agg |-> ZeroAggregated, snap |-> ZeroSnapshot,
     tokens |-> TokNone, norm |-> ZeroStats, raised |-> FALSE]

\* The tracker as __init__ leaves it, and no call under way.
InitTracker ==
    /\ max_details \in 1..MaxCapacity
    /\ events = [items |-> <<>>, maxlen |-> max_details]
    /\ lock = NoThread
    /\ now = 0
    /\ pc = [t \in Threads |-> "idle"]
    /\ loc = [t \in Threads |-> LocIdle]
    /\ built = 0
    /\ recent = <<>>
    /\ had_reset = FALSE

\* The threads go on calling for ever.
Init == InitTracker /\ budget = NoBudget

\* A call is issued: one less of a finite set of calls is left.
TakeCall ==
    /\ budget # 0
    /\ budget' = IF budget = NoBudget THEN NoBudget ELSE budget - 1

\* The clock moves on.
Tick ==
    /\ \E later \in ClockTimes : later > now /\ now' = later
    /\ UNCHANGED <<events, max_details, lock, pc, loc, built, recent, had_reset, budget>>

\* `with self._lock:` is entered when no other thread holds the RLock.
LockFree(t) == lock = NoThread \/ lock = t

\* The last n items of a sequence.
LastEvents(items, n) ==
    IF Len(items) <= n THEN items ELSE SubSeq(items, Len(items) - n + 1, Len(items))

\* ---- record
\* record() is called with arguments a and builds its event dict outside
\* the lock (lines 77-87).
CallRecord(t, a) ==
    /\ pc[t] = "idle"
    /\ built < MaxRecords
    /\ LET new == BuildEvent(a, now)
       IN  IF new.raised
           THEN /\ pc' = [pc EXCEPT ![t] = "raised"]
                /\ loc' = [loc EXCEPT ![t] = [LocIdle EXCEPT !.op = "record", !.raised = TRUE]]
                /\ built' = built
           ELSE /\ pc' = [pc EXCEPT ![t] = "rec_lock"]
                /\ loc' = [loc EXCEPT ![t] = [LocIdle EXCEPT !.op = "record", !.event = new.event]]
                /\ built' = built + 1
    /\ UNCHANGED <<events, max_details, lock, now, recent, had_reset>>
    /\ TakeCall

\* An append that does not wait for the lock.
RecordAppendNoLock(t) ==
    /\ pc[t] = "rec_lock"
    /\ lock' = t
    /\ events' = DequeAppend(events, loc[t].event)
    /\ recent' = IF had_reset THEN <<>> ELSE LastEvents(Append(recent, loc[t].event), max_details)
    /\ pc' = [pc EXCEPT ![t] = "rec_exit"]
    /\ UNCHANGED <<max_details, now, loc, built, had_reset, budget>>

\* lines 88-89: the lock is taken and the event appended.
RecordAppend(t) ==
    /\ pc[t] = "rec_lock"
    /\ LockFree(t)
    /\ lock' = t
    /\ events' = DequeAppend(events, loc[t].event)
    /\ recent' = IF had_reset THEN <<>> ELSE LastEvents(Append(recent, loc[t].event), max_details)
    /\ pc' = [pc EXCEPT ![t] = "rec_exit"]
    /\ UNCHANGED <<max_details, now, loc, built, had_reset, budget>>

\* The with block is left, the lock released, and record returns None.
RecordReturn(t) ==
    /\ pc[t] = "rec_exit"
    /\ lock' = NoThread
    /\ pc' = [pc EXCEPT ![t] = "idle"]
    /\ loc' = [loc EXCEPT ![t] = LocIdle]
    /\ UNCHANGED <<events, max_details, now, built, recent, had_reset, budget>>

\* ---- reset
CallReset(t, source) ==
    /\ pc[t] = "idle"
    /\ pc' = [pc EXCEPT ![t] = "reset_lock"]
    /\ loc' = [loc EXCEPT ![t] = [LocIdle EXCEPT !.op = "reset", !.source = source]]
    /\ UNCHANGED <<events, max_details, lock, now, built, recent, had_reset>>
    /\ TakeCall

\* A reset() that counts the events and forgets to clear them.
ResetAllKeepsStore(t) ==
    /\ pc[t] = "reset_lock"
    /\ LockFree(t)
    /\ lock' = t
    /\ ~Truthy(loc[t].source)
    /\ loc' = [loc EXCEPT ![t].seen = events.items, ![t].removed = Len(events.items)]
    /\ events' = events
    /\ had_reset' = TRUE
    /\ recent' = <<>>
    /\ pc' = [pc EXCEPT ![t] = "reset_exit"]
    /\ UNCHANGED <<max_details, now, built, budget>>

\* lines 92-96: the lock is taken; `if not source:` holds for None and for
\* the empty string, and the store is cleared.
ResetAll(t) ==
    /\ pc[t] = "reset_lock"
    /\ LockFree(t)
    /\ lock' = t
    /\ ~Truthy(loc[t].source)
    /\ loc' = [loc EXCEPT ![t].seen = events.items, ![t].removed = Len(events.items)]
    /\ events' = [events EXCEPT !.items = <<>>]
    /\ had_reset' = TRUE
    /\ recent' = <<>>
    /\ pc' = [pc EXCEPT ![t] = "reset_exit"]
    /\ UNCHANGED <<max_details, now, built, budget>>

\* A reset that treats a blank source as no source.
ResetBlankClears(t) ==
    /\ pc[t] = "reset_lock"
    /\ LockFree(t)
    /\ lock' = t
    /\ Truthy(loc[t].source)
    /\ Strip(loc[t].source.s) = <<>>
    /\ loc' = [loc EXCEPT ![t].seen = events.items, ![t].removed = Len(events.items)]
    /\ events' = [events EXCEPT !.items = <<>>]
    /\ pc' = [pc EXCEPT ![t] = "reset_exit"]
    /\ UNCHANGED <<max_details, now, built, recent, had_reset, budget>>

\* lines 92, 98-100: the lock is taken; the source strips to nothing.
ResetBlank(t) ==
    /\ pc[t] = "reset_lock"
    /\ LockFree(t)
    /\ lock' = t
    /\ Truthy(loc[t].source)
    /\ Strip(loc[t].source.s) = <<>>
    /\ loc' = [loc EXCEPT ![t].seen = events.items, ![t].removed = 0]
    /\ pc' = [pc EXCEPT ![t] = "reset_exit"]
    /\ UNCHANGED <<events, max_details, now, built, recent, had_reset, budget>>

\* A filter that compares with the source as given, not stripped.
ResetFilterUnstripped(t) ==
    /\ pc[t] = "reset_lock"
    /\ LockFree(t)
    /\ lock' = t
    /\ Truthy(loc[t].source)
    /\ Strip(loc[t].source.s) # <<>>
    /\ loc' = [loc EXCEPT ![t].seen = events.items,
                          ![t].before = Len(events.items),
                          ![t].kept = SelectEvents(events.items, loc[t].source.s)]
    /\ pc' = [pc EXCEPT ![t] = "reset_assign"]
    /\ UNCHANGED <<events, max_details, now, built, recent, had_reset, budget>>

\* lines 92, 98-103: the lock is taken; `before` and `kept` are computed.
ResetFilter(t) ==
    /\ pc[t] = "reset_lock"
    /\ LockFree(t)
    /\ lock' = t
    /\ Truthy(loc[t].source)
    /\ Strip(loc[t].source.s) # <<>>
    /\ loc' = [loc EXCEPT ![t].seen = events.items,
                          ![t].before = Len(events.items),
                          ![t].kept = SelectEvents(events.items, Strip(loc[t].source.s))]
    /\ pc' = [pc EXCEPT ![t] = "reset_assign"]
    /\ UNCHANGED <<events, max_details, now, built, recent, had_reset, budget>>

\* A rebuild that forgets maxlen.
ResetAssignUnbounded(t) ==
    /\ pc[t] = "reset_assign"
    /\ events' = DequeNew(loc[t].kept, Unbounded)
    /\ loc' = [loc EXCEPT ![t].removed = loc[t].before - Len(events'.items)]
    /\ had_reset' = TRUE
    /\ recent' = <<>>
    /\ pc' = [pc EXCEPT ![t] = "reset_exit"]
    /\ UNCHANGED <<max_details, lock, now, built, budget>>

\* lines 104-105: the store is rebuilt from `kept` with the old maxlen.
ResetAssign(t) ==
    /\ pc[t] = "reset_assign"
    /\ events' = DequeNew(loc[t].kept, events.maxlen)
    /\ loc' = [loc EXCEPT ![t].removed = loc[t].before - Len(events'.items)]
    /\ had_reset' = TRUE
    /\ recent' = <<>>
    /\ pc' = [pc EXCEPT ![t] = "reset_exit"]
    /\ UNCHANGED <<max_details, lock, now, built, budget>>

\* A return of reset that leaves the lock held.
ResetReturnKeepsLock(t) ==
    /\ pc[t] = "reset_exit"
    /\ lock' = lock
    /\ pc' = [pc EXCEPT ![t] = "idle"]
    /\ loc' = [loc EXCEPT ![t] = LocIdle]
    /\ UNCHANGED <<events, max_details, now, built, recent, had_reset, budget>>

\* The with block is left, the lock released, and reset returns `removed`.
ResetReturn(t) ==
    /\ pc[t] = "reset_exit"
    /\ lock' = NoThread
    /\ pc' = [pc EXCEPT ![t] = "idle"]
    /\ loc' = [loc EXCEPT ![t] = LocIdle]
    /\ UNCHANGED <<events, max_details, now, built, recent, had_reset, budget>>

\* ---- the views
Views == {"get_stats_24h", "get_aggregated_24h", "snapshot"}

\* Each view starts with _snapshot_events().
CallView(t, op) ==
    /\ pc[t] = "idle"
    /\ pc' = [pc EXCEPT ![t] = "copy_lock"]
    /\ loc' = [loc EXCEPT ![t] = [LocIdle EXCEPT !.op = op]]
    /\ UNCHANGED <<events, max_details, lock, now, built, recent, had_reset>>
    /\ TakeCall

\* A copy that takes the events out of the deque.
CopyEventsDrains(t) ==
    /\ pc[t] = "copy_lock"
    /\ LockFree(t)
    /\ lock' = t
    /\ loc' = [loc EXCEPT ![t].copy = events.items]
    /\ events' = [events EXCEPT !.items = <<>>]
    /\ pc' = [pc EXCEPT ![t] = "copy_exit"]
    /\ UNCHANGED <<max_details, now, built, recent, had_reset, budget>>

\* lines 108-109: the lock is taken and list(self._events) copied.
CopyEvents(t) ==
    /\ pc[t] = "copy_lock"
    /\ LockFree(t)
    /\ lock' = t
    /\ loc' = [loc EXCEPT ![t].copy = events.items]
    /\ pc' = [pc EXCEPT ![t] = "copy_exit"]
    /\ UNCHANGED <<events, max_details, now, built, recent, had_reset, budget>>

\* _snapshot_events returns: the lock is released, the view goes on.
CopyRelease(t) ==
    /\ pc[t] = "copy_exit"
    /\ lock' = NoThread
    /\ pc' = [pc EXCEPT ![t] = IF loc[t].op = "snapshot" THEN "snap" ELSE "stats"]
    /\ UNCHANGED <<events, max_details, now, loc, built, recent, had_reset, budget>>

\* A view that reads the live deque instead of its copy.
EventsListAliased(t) == events.items

\* `events = self._snapshot_events()`: the view's own list.
EventsList(t) == loc[t].copy

\* get_stats_24h, lines 113-134: time.time() is read, then the loop runs
\* over the copy.
StatsCompute(t) ==
    /\ pc[t] = "stats"
    /\ loc[t].op = "get_stats_24h"
    /\ loc' = [loc EXCEPT ![t].clock = now, ![t].stats = stats_24h(EventsList(t), now)]
    /\ pc' = [pc EXCEPT ![t] = "view_exit"]
    /\ UNCHANGED <<events, max_details, lock, now, built, recent, had_reset, budget>>

\* get_aggregated_24h, lines 137-145: the same on its own call of
\* get_stats_24h, then the totals.
AggCompute(t) ==
    /\ pc[t] = "stats"
    /\ loc[t].op = "get_aggregated_24h"
    /\ loc' = [loc EXCEPT ![t].clock = now,
                          ![t].stats = stats_24h(EventsList(t), now),
                          ![t].agg = aggregated_24h(stats_24h(EventsList(t), now))]
    /\ pc' = [pc EXCEPT ![t] = "view_exit"]
    /\ UNCHANGED <<events, max_details, lock, now, built, recent, had_reset, budget>>

\* snapshot, lines 150-229
SnapCompute(t) ==
    /\ pc[t] = "snap"
    /\ LET r == snapshot_result(EventsList(t))
       IN  IF r.raised
           THEN /\ pc' = [pc EXCEPT ![t] = "raised"]
                /\ loc' = [loc EXCEPT ![t].raised = TRUE]
           ELSE /\ pc' = [pc EXCEPT ![t] = "view_exit"]
                /\ loc' = [loc EXCEPT ![t].snap = r.result]
    /\ UNCHANGED <<events, max_details, lock, now, built, recent, had_reset, budget>>

\* ---- normalize_token_stats, called on its own
CallNormalize(t, tokens) ==
    /\ pc[t] = "idle"
    /\ LET r == normalize_token_stats(tokens)
       IN  /\ pc' = [pc EXCEPT ![t] = IF r.raised THEN "raised" ELSE "view_exit"]
           /\ loc' = [loc EXCEPT ![t] = [LocIdle EXCEPT !.op = "normalize_token_stats",
                                                        !.tokens = tokens,
                                                        !.norm = r.stats,
                                                        !.raised = r.raised]]
    /\ UNCHANGED <<events, max_details, lock, now, built, recent, had_reset>>
    /\ TakeCall

\* A call that holds no lock returns its result, or its exception reaches
\* the caller.
Return(t) ==
    /\ pc[t] \in {"view_exit", "raised"}
    /\ pc' = [pc EXCEPT ![t] = "idle"]
    /\ loc' = [loc EXCEPT ![t] = LocIdle]
    /\ UNCHANGED <<events, max_details, lock, now, built, recent, had_reset, budget>>

\* ------------------------------------------------------------ inputs
StrA == PyStr(<<"a">>)

\* What reset is called with: no source, the empty string, a blank, and a
\* source with blanks around it.
ResetSources == {PyNone, PyStr(<<>>), PyStr(<<" ">>), PyStr(<<" ", "b", " ">>)}

TokensInOut ==
    TokDict([EmptyDict EXCEPT !["input_tokens"] = PyInt(1), !["output_tokens"] = PyInt(2)])

TokensTotal == TokDict([EmptyDict EXCEPT !["totalTokens"] = PyInt(5)])

\* The record calls of the concurrent threads: two sources, one given with
\* a blank before it, and no source; a success at the start, a failure of
\* another api an hour into the next day, a success at that day's start.
ConcRecordArgs ==
    {[Args(StrA) EXCEPT !.timestamp = Ts(0), !.tokens = TokensInOut],
     [Args(PyStr(<<" ", "b">>)) EXCEPT !.timestamp = Ts(Day + Hour), !.failed = TRUE,
                                       !.api = PyStr(<<"x">>)],
     [Args(PyNone) EXCEPT !.timestamp = Ts(Day), !.tokens = TokensTotal]}

\* The steps of thread t, its calls drawn from the given arguments.
ThreadStep(t, recordArgs, resetSources) ==
    \/ \E a \in recordArgs : CallRecord(t, a)
    \/ RecordAppend(t)
    \/ RecordReturn(t)
    \/ \E source \in resetSources : CallReset(t, source)
    \/ ResetAll(t)
    \/ ResetBlank(t)
    \/ ResetFilter(t)
    \/ ResetAssign(t)
    \/ ResetReturn(t)
    \/ \E op \in Views : CallView(t, op)
    \/ CopyEvents(t)
    \/ CopyRelease(t)
    \/ StatsCompute(t)
    \/ AggCompute(t)
    \/ SnapCompute(t)
    \/ Return(t)

\* Two threads call record, reset and the views concurrently.
Next == \E t \in Threads : ThreadStep(t, ConcRecordArgs, ResetSources)

Spec == Init /\ [][Next]_vars

\* ---- one caller, events that differ in what the 24-hour views read
\* Successes and a failure of two sources, two apis and two models taking
\* the current time, and an event whose timestamp is float("nan").
SeqRecordArgs ==
    {[Args(StrA) EXCEPT !.tokens = TokensInOut,
                        !.api = PyStr(<<"x">>), !.model = PyStr(<<"m">>)],
     [Args(StrA) EXCEPT !.failed = TRUE,
                        !.api = PyStr(<<"x", " ">>), !.model = PyStr(<<"n">>)],
     [Args(PyStr(<<" ", "b">>)) EXCEPT !.tokens = TokensTotal, !.api = PyStr(<<"y">>)],
     [Args(PyStr(<<"c">>)) EXCEPT !.timestamp = TsNaN, !.tokens = TokensInOut]}

NextSeq == Tick \/ ThreadStep("p1", SeqRecordArgs, ResetSources)

SpecSeq == Init /\ [][NextSeq]_vars

\* ---- one caller, record calls with malformed tokens and status_code
\* Values of every type a caller may pass for a number.
RawValues ==
    {PyNone, PyInt(0 - 1), PyInt(2), PyStr(<<"2">>), PyStr(<<" ", "-", "2">>),
     PyStr(<<"x">>), PyStr(<<>>), PyFloat(27), PyFloat(0 - 5), PyNaN, PyInf,
     PyList(1), PyList(0), PyBool(TRUE)}

\* tokens: None, dicts with any raw value under one spelling of a field and
\* possibly a number under another, and values that are no dict.
RawTokens ==
    {TokNone}
    \cup {TokDict([EmptyDict EXCEPT !["input_tokens"] = v, !["prompt_tokens"] = w]) :
            v \in RawValues, w \in {PyNone, PyInt(2)}}
    \cup {TokOther(PyStr(<<"2">>)), TokOther(PyList(1)), TokOther(PyInt(0))}

RawRecordArgs ==
    {[Args(StrA) EXCEPT !.tokens = tokens, !.status_code = status_code] :
        tokens \in RawTokens, status_code \in RawValues}

NextRaw == ThreadStep("p1", RawRecordArgs, ResetSources)

SpecRaw == Init /\ [][NextRaw]_vars

\* ---- a finite set of calls, scheduled fairly
\* The threads have MaxCalls calls to issue between them.
InitLive == InitTracker /\ budget = MaxCalls

LiveRecordArgs == {[Args(StrA) EXCEPT !.timestamp = Ts(0)]}

LiveResetSources == {PyNone, PyStr(<<" ">>), StrA}

\* The steps of a call of thread t after the call is issued.
Proceed(t) ==
    \/ RecordAppend(t)
    \/ RecordReturn(t)
    \/ ResetAll(t)
    \/ ResetBlank(t)
    \/ ResetFilter(t)
    \/ ResetAssign(t)
    \/ ResetReturn(t)
    \/ CopyEvents(t)
    \/ CopyRelease(t)
    \/ StatsCompute(t)
    \/ AggCompute(t)
    \/ SnapCompute(t)
    \/ Return(t)

NextLive == \E t \in Threads : ThreadStep(t, LiveRecordArgs, LiveResetSources)

\* A thread that can go on with its call does so at some time; a thread
\* that waits for the lock is one that cannot.
Fairness == \A t \in Threads : WF_vars(Proceed(t))

SpecLive == InitLive /\ [][NextLive]_vars /\ Fairness

\* ---- producers that omit the timestamp, while the clock moves
\* The name a producer gives as the source of its calls.
ProducerName(t) == IF t = "p1" THEN <<"p", "1">> ELSE <<"p", "2">>

\* The arguments of the number-th record call issued: the producer's name
\* as source, the number of the call as auth_index, and no timestamp, so
\* that the event takes time.time().
ProducerArgs(t, number) ==
    [Args(PyStr(ProducerName(t))) EXCEPT !.auth_index = PyStr(<<Digits[number + 1]>>)]

NextProd ==
    \/ Tick
    \/ \E t \in Threads :
        \/ CallRecord(t, ProducerArgs(t, built + 1))
        \/ RecordAppend(t)
        \/ RecordReturn(t)

SpecProd == Init /\ [][NextProd]_vars

\* ---- one caller of normalize_token_stats
\* Dicts that give each field under one of its spellings: numbers, negative
\* numbers, strings, a float, a NaN, or nothing, with up to three spellings
\* of the total at once; None and the empty dict; values that are no dict.
TokenInputs ==
    {TokNone, TokOther(PyStr(<<"2">>)), TokOther(PyList(1)), TokOther(PyInt(0)),
     TokOther(PyStr(<<>>))}
    \cup {TokDict([EmptyDict EXCEPT !["input_tokens"] = i,
                                    !["completion_tokens"] = o,
                                    !["reasoningTokens"] = r,
                                    !["cached_tokens"] = c,
                                    !["total_tokens"] = t1,
                                    !["totalTokenCount"] = t2,
                                    !["totalTokens"] = t3]) :
            i \in {PyNone, PyInt(1), PyInt(0 - 1), PyStr(<<"2">>)},
            o \in {PyNone, PyInt(2)},
            r \in {PyNone, PyInt(4), PyStr(<<"x">>)},
            c \in {PyNone, PyInt(8), PyInt(0 - 8)},
            t1 \in {PyNone, PyInt(0), PyInt(0 - 3), PyInt(16), PyStr(<<"0">>),
                    PyStr(<<"x">>), PyFloat(27), PyNaN},
            t2 \in {PyNone, PyInt(32)},
            t3 \in {PyNone, PyInt(64)}}

NextTokens == (\E tokens \in TokenInputs : CallNormalize("p1", tokens)) \/ Return("p1")

SpecTokens == Init /\ [][NextTokens]_vars

\* ------------------------------------------------------------ claims
\* The positions of the events of `items` whose source is not `target`.
KeptPositions(items, target) == {i \in 1..Len(items) : items[i].source # target}

\* `rest` is `items` without the events of source `target`, the others in
\* their order: its j-th event is the one at the j-th kept position.
IsRestOf(rest, items, target) ==
    LET kept == KeptPositions(items, target)
    IN  /\ Len(rest) = Cardinality(kept)
        /\ \A j \in 1..Len(rest) :
              \E i \in kept : /\ Cardinality({k \in kept : k <= i}) = j
                              /\ rest[j] = items[i]

\* The record calls whose event has been appended.
Appended == built - Cardinality({t \in Threads : pc[t] = "rec_lock"})

\* The pcs at which a thread is inside a `with self._lock:` block.
InLock == {"rec_exit", "reset_assign", "reset_exit", "copy_exit"}

\* reset(source) with a source that is a str stripping to a non-empty target
NonBlank(source) == source.k = "str" /\ Strip(source.s) # <<>>

\* C1: in every reachable state, under any interleaving of record, reset()
\* and reset(source) calls, the store holds at most max_details events, also
\* after reset(source) has rebuilt the deque.
C1_SizeWithinCapacity == Len(events.items) <= max_details

\* C1 witness: reset(source) has just rebuilt the store, which is still
\* full, and a record call waits for the lock with its event.
C1_Witness ==
    \E t, u \in Threads :
        /\ pc[t] = "reset_exit" /\ NonBlank(loc[t].source)
        /\ pc[u] = "rec_lock"
        /\ Len(events.items) = max_details

\* C2, each record call: on a store of max_details events the append drops
\* exactly the earliest event and puts the new one last; on a smaller store
\* it drops nothing.
C2_AppendStep ==
    \A t \in Threads :
        (pc[t] = "rec_lock" /\ pc'[t] = "rec_exit") =>
            events'.items =
                (IF Len(events.items) = max_details
                 THEN Tail(events.items) ELSE events.items) \o <<loc[t].event>>

\* C2, with no reset: the store is the last max_details events appended, in
\* the order of their append, all of them while fewer were appended.
C2_LastAppended ==
    ~had_reset =>
        /\ events.items = recent
        /\ Len(events.items) = IF Appended < max_details THEN Appended ELSE max_details

\* C2: eviction is FIFO by insertion.
C2_FifoEviction == [][C2_AppendStep]_vars /\ []C2_LastAppended

\* C2 witness: capacity 2, three events appended and no reset: the store
\* holds the last two.
C2_Witness ==
    /\ max_details = 2
    /\ ~had_reset
    /\ Appended = 3
    /\ Len(events.items) = 2
    /\ events.items[1] # events.items[2]

\* C3 as claimed: reset with the empty string or a blank source returns 0
\* and leaves the store as it was.
C3_BlankSourceIsNoOp ==
    \A t \in Threads :
        (/\ pc[t] = "reset_exit"
         /\ loc[t].source.k = "str"
         /\ Strip(loc[t].source.s) = <<>>) =>
            /\ loc[t].removed = 0
            /\ events.items = loc[t].seen

\* C3 as amended: reset with a non-empty source of blanks returns 0 and
\* leaves the store as it was; reset with the empty string clears the whole
\* store and returns the number of events it held, as reset() does.
C3_BlankNoOpEmptyClears ==
    \A t \in Threads :
        (pc[t] = "reset_exit" /\ loc[t].source.k = "str") =>
            /\ (loc[t].source.s # <<>> /\ Strip(loc[t].source.s) = <<>>) =>
                  /\ loc[t].removed = 0
                  /\ events.items = loc[t].seen
            /\ loc[t].source.s = <<>> =>
                  /\ loc[t].removed = Len(loc[t].seen)
                  /\ events.items = <<>>

\* C3 witness: reset with a blank source has run on a store holding events.
C3_Witness ==
    \E t \in Threads :
        /\ pc[t] = "reset_exit"
        /\ loc[t].source = PyStr(<<" ">>)
        /\ loc[t].seen # <<>>

\* C4: reset(source=S) with a non-blank S removes exactly the events whose
\* source is S stripped: the others stay in their order, and the number
\* returned is the size before minus the size after, the number of events
\* of that source.
C4_ResetSourceRemovesExactly ==
    \A t \in Threads :
        (pc[t] = "reset_exit" /\ NonBlank(loc[t].source)) =>
            LET target == Strip(loc[t].source.s)
                before == loc[t].seen
            IN  /\ IsRestOf(events.items, before, target)
                /\ loc[t].removed = Len(before) - Len(events.items)
                /\ loc[t].removed =
                      Cardinality({i \in 1..Len(before) : before[i].source = target})

\* C4 witness: a reset by a source given with blanks around it has removed
\* an event from between two events of other sources.
C4_Witness ==
    \E t \in Threads :
        /\ pc[t] = "reset_exit"
        /\ NonBlank(loc[t].source)
        /\ loc[t].source.s # Strip(loc[t].source.s)
        /\ Len(loc[t].seen) = 3
        /\ loc[t].seen[2].source = Strip(loc[t].source.s)
        /\ loc[t].removed = 1
        /\ events.items[1] # events.items[2]

\* C5: reset() with no source returns the number of events stored when it
\* took the lock and leaves the store empty.
C5_ResetAllReturnsCount ==
    \A t \in Threads :
        (pc[t] = "reset_exit" /\ loc[t].source = PyNone) =>
            /\ loc[t].removed = Len(loc[t].seen)
            /\ events.items = <<>>

\* C5 witness: reset() has run on a full store.
C5_Witness ==
    \E t \in Threads :
        /\ pc[t] = "reset_exit"
        /\ loc[t].source = PyNone
        /\ Len(loc[t].seen) = max_details
        /\ loc[t].removed = max_details

\* C6: a reset is atomic under any interleaving.  Inside the lock nothing
\* but the reset changes the store; what it removes and counts are the
\* (matching) events present when it took the lock; an event of another
\* source is kept; and the event of a record call that takes the lock is in
\* the store, last, when the call returns.
C6_ResetAtomic ==
    \A t \in Threads :
        /\ pc[t] \in InLock => lock = t
        /\ pc[t] = "reset_assign" => events.items = loc[t].seen
        /\ (pc[t] = "reset_exit" /\ ~Truthy(loc[t].source)) =>
              /\ events.items = <<>>
              /\ loc[t].removed = Len(loc[t].seen)
        /\ (pc[t] = "reset_exit" /\ NonBlank(loc[t].source)) =>
              /\ IsRestOf(events.items, loc[t].seen, Strip(loc[t].source.s))
              /\ loc[t].removed = Len(loc[t].seen) - Len(events.items)
        /\ pc[t] = "rec_exit" =>
              /\ events.items # <<>>
              /\ events.items[Len(events.items)] = loc[t].event

\* C6 witness: a reset by source is inside the lock, between its filter and
\* its assignment, with events to remove and to keep, while a record call
\* of another source waits for the lock.
C6_Witness ==
    \E t, u \in Threads :
        /\ pc[t] = "reset_assign"
        /\ loc[t].kept # <<>>
        /\ loc[t].kept # loc[t].seen
        /\ pc[u] = "rec_lock"
        /\ loc[u].event.source # Strip(loc[t].source.s)

\* C7: a view's list is the whole store at one instant: when the copy is
\* made the view holds the lock, no other call is inside the lock (no
\* append, clear or rebuild is under way), and the copy is the store; calls
\* that change the store afterwards change neither the list nor the result.
C7_ViewsReadOneInstant ==
    \A t \in Threads :
        /\ pc[t] = "copy_exit" =>
              /\ lock = t
              /\ loc[t].copy = events.items
              /\ \A u \in Threads \ {t} : pc[u] \notin InLock
        /\ (pc[t] = "view_exit" /\ loc[t].op \in {"get_stats_24h", "get_aggregated_24h"}) =>
              loc[t].stats = stats_24h(loc[t].copy, loc[t].clock)
        /\ (pc[t] = "view_exit" /\ loc[t].op = "get_aggregated_24h") =>
              loc[t].agg = aggregated_24h(stats_24h(loc[t].copy, loc[t].clock))
        /\ (pc[t] = "view_exit" /\ loc[t].op = "snapshot") =>
              loc[t].snap = snapshot_result(loc[t].copy).result

\* C7 witness: a view has its result from a copy of a store that a later
\* call has changed since.
C7_Witness ==
    \E t \in Threads :
        /\ pc[t] = "view_exit"
        /\ loc[t].copy # <<>>
        /\ loc[t].copy # events.items

\* C8 as claimed: whatever tokens and status_code are, record does not
\* raise; it appends one event whose numbers are coerced to integers >= 0.
C8_RecordNeverRaises ==
    \A t \in Threads :
        /\ ~(pc[t] = "raised" /\ loc[t].op = "record")
        /\ pc[t] = "rec_exit" =>
              /\ events.items # <<>>
              /\ events.items[Len(events.items)] = loc[t].event
              /\ loc[t].event.status_code >= 0
              /\ loc[t].event.tokens.total_tokens >= 0

\* a >= b on floats: false when either is a NaN.
FloatGe(a, b) == a.k = "num" /\ b.k = "num" /\ a.n >= b.n

\* The positions in `items` of the events of `source` that are inside the
\* window at time `clock`: those with timestamp >= clock - 86400 and, with
\* nan_counts, those with a NaN timestamp.
Window(items, source, clock, nan_counts) ==
    {i \in 1..Len(items) :
        /\ items[i].source = source
        /\ \/ FloatGe(items[i].timestamp, Ts(clock - Day))
           \/ nan_counts /\ items[i].timestamp.k = "nan"}

\* The sum of total_tokens over the events at the given positions.
RECURSIVE TokensAt(_, _)
TokensAt(items, positions) ==
    IF positions = {} THEN 0
    ELSE LET i == CHOOSE x \in positions : TRUE
         IN  items[i].tokens.total_tokens + TokensAt(items, positions \ {i})

SourcesOf(items) == {items[i].source : i \in 1..Len(items)}

\* stats has an entry for exactly the sources with an event inside the
\* window, with the calls, failures, successes and token sum of those events.
StatsMatch(stats, items, clock, nan_counts) ==
    /\ DOMAIN stats =
          {s \in SourcesOf(items) : Window(items, s, clock, nan_counts) # {}}
    /\ \A s \in DOMAIN stats :
          LET window == Window(items, s, clock, nan_counts)
          IN  /\ stats[s].calls_24h = Cardinality(window)
              /\ stats[s].failed_24h = Cardinality({i \in window : items[i].failed})
              /\ stats[s].success_24h = Cardinality({i \in window : ~items[i].failed})
              /\ stats[s].tokens_24h = TokensAt(items, window)

CountedEvents(items, clock) ==
    Cardinality({i \in 1..Len(items) : ~FloatLt(items[i].timestamp, Ts(clock - Day))})

\* C10: get_aggregated_24h returns the sum of calls_24h over the sources of
\* one get_stats_24h result (the events that result counts), the number of
\* its sources, and their quotient, or 0 when there is no source.
C10_AggregatedFromStats ==
    \A t \in Threads :
        (pc[t] = "view_exit" /\ loc[t].op = "get_aggregated_24h") =>
            LET stats == loc[t].stats
                agg == loc[t].agg
            IN  /\ stats = stats_24h(loc[t].copy, loc[t].clock)
                /\ agg.total_calls_24h = CountedEvents(loc[t].copy, loc[t].clock)
                /\ agg.total_calls_24h = SumCalls(stats, DOMAIN stats)
                /\ agg.total_files = Cardinality(DOMAIN stats)
                /\ agg.total_files = 0 => agg.avg_calls_per_file = FloatZero
                /\ agg.total_files # 0 =>
                      /\ agg.avg_calls_per_file.den > 0
                      /\ agg.avg_calls_per_file.num * agg.total_files
                            = agg.total_calls_24h * agg.avg_calls_per_file.den

\* C10 witness: three calls of two sources, an average of 1.5.
C10_Witness ==
    \E t \in Threads :
        /\ pc[t] = "view_exit" /\ loc[t].op = "get_aggregated_24h"
        /\ loc[t].agg.total_calls_24h = 3
        /\ loc[t].agg.total_files = 2
        /\ loc[t].agg.avg_calls_per_file = [num |-> 3, den |-> 2]

\* The sum of the values of a dict of numbers.
RECURSIVE SumValues(_)
SumValues(d) ==
    IF DOMAIN d = {} THEN 0
    ELSE LET key == CHOOSE x \in DOMAIN d : TRUE
         IN  d[key] + SumValues([x \in DOMAIN d \ {key} |-> d[x]])

\* A snapshot() call of thread t has its result.
SnapshotDone(t) == pc[t] = "view_exit" /\ loc[t].op = "snapshot"

\* C11: in every snapshot() result, also one computed while other threads
\* record and reset, total_requests = success_count + failure_count and the
\* values of requests_by_day and of requests_by_hour each sum to
\* total_requests; the snapshot of an empty store has four totals of 0 and
\* empty apis and histograms.
C11_SnapshotTotals ==
    \A t \in Threads :
        SnapshotDone(t) =>
            LET r == loc[t].snap
            IN  /\ r.total_requests = r.success_count + r.failure_count
                /\ SumValues(r.requests_by_day) = r.total_requests
                /\ SumValues(r.requests_by_hour) = r.total_requests
                /\ loc[t].copy = <<>> =>
                       /\ r.total_requests = 0 /\ r.success_count = 0
                       /\ r.failure_count = 0 /\ r.total_tokens = 0
                       /\ DOMAIN r.apis = {}
                       /\ DOMAIN r.requests_by_day = {}
                       /\ DOMAIN r.requests_by_hour = {}
                       /\ DOMAIN r.tokens_by_day = {}
                       /\ DOMAIN r.tokens_by_hour = {}

\* A snapshot of three events, successes and a failure, two of them of one
\* day and two of one hour of the day, while the other thread has changed
\* the store since the copy.
C11_Witness ==
    \E t \in Threads :
        /\ SnapshotDone(t)
        /\ loc[t].snap.total_requests = 3
        /\ loc[t].snap.failure_count = 1
        /\ Cardinality(DOMAIN loc[t].snap.requests_by_day) = 2
        /\ Cardinality(DOMAIN loc[t].snap.requests_by_hour) = 2
        /\ events.items # loc[t].copy

\* The events of `items` recorded with the api and the model, in the order
\* of `items`.
RECURSIVE EventsOfPair(_, _, _)
EventsOfPair(items, api, model) ==
    IF items = <<>> THEN <<>>
    ELSE IF Head(items).api = api /\ Head(items).model = model
         THEN <<Head(items)>> \o EventsOfPair(Tail(items), api, model)
         ELSE EventsOfPair(Tail(items), api, model)

\* The detail list is the list of events, detail by detail.
DetailsOf(details, items) ==
    /\ Len(details) = Len(items)
    /\ \A i \in 1..Len(items) :
        /\ details[i].timestamp = items[i].timestamp
        /\ details[i].source = items[i].source
        /\ details[i].auth_index = items[i].auth_index
        /\ details[i].tokens = items[i].tokens
        /\ details[i].failed = items[i].failed

\* C12: in every snapshot() result the apis are those of the events of the
\* copy, the models of an api those of its events, and the details of each
\* (api, model) pair are the events of the copy recorded with that api and
\* model, one detail per event, in the order the store held them, which is
\* the order of their append.
C12_DetailsInAppendOrder ==
    \A t \in Threads :
        SnapshotDone(t) =>
            LET apis == loc[t].snap.apis
                items == loc[t].copy
            IN  /\ DOMAIN apis = {items[i].api : i \in 1..Len(items)}
                /\ \A api \in DOMAIN apis :
                    /\ DOMAIN apis[api].models =
                           {items[i].model : i \in {j \in 1..Len(items) : items[j].api = api}}
                    /\ \A model \in DOMAIN apis[api].models :
                           DetailsOf(apis[api].models[model].details,
                                     EventsOfPair(items, api, model))

\* A snapshot of three events: two of one (api, model) pair recorded at
\* different times, with an event of another pair appended between them.
C12_Witness ==
    \E t \in Threads :
        /\ SnapshotDone(t)
        /\ Len(loc[t].copy) = 3
        /\ loc[t].copy[1].api = loc[t].copy[3].api
        /\ loc[t].copy[1].model = loc[t].copy[3].model
        /\ loc[t].copy[1].timestamp # loc[t].copy[3].timestamp
        /\ loc[t].copy[2].model # loc[t].copy[1].model
        /\ Len(loc[t].snap.apis[loc[t].copy[1].api].models[loc[t].copy[1].model].details) = 2

\* A call of normalize_token_stats by thread t has returned its mapping.
NormalizeDone(t) == pc[t] = "view_exit" /\ loc[t].op = "normalize_token_stats"

\* The explicit total of a dict: the first of the three spellings of the
\* total that holds a non-empty value, as a non-negative integer, and 0 if
\* none does.
ExplicitTotal(d) ==
    IF Truthy(d["total_tokens"]) THEN safe_int(d["total_tokens"])
    ELSE IF Truthy(d["totalTokenCount"]) THEN safe_int(d["totalTokenCount"])
    ELSE IF Truthy(d["totalTokens"]) THEN safe_int(d["totalTokens"])
    ELSE 0

\* C13: the total_tokens normalize_token_stats returns is input_tokens +
\* output_tokens + reasoning_tokens when no spelling of the total is given
\* or the explicit total resolves to 0, and the explicit total otherwise;
\* the cached tokens are not in the sum.
C13_TotalFallback ==
    \A t \in Threads :
        NormalizeDone(t) =>
            LET r == loc[t].norm
                explicit == ExplicitTotal(loc[t].tokens.d)
            IN  r.total_tokens =
                    IF explicit = 0
                    THEN r.input_tokens + r.output_tokens + r.reasoning_tokens
                    ELSE explicit

\* A call with input, output, reasoning and cached tokens and a total that
\* resolves to 0: the total returned is 1 + 2 + 4.
C13_Witness ==
    \E t \in Threads :
        /\ NormalizeDone(t)
        /\ loc[t].tokens.d["total_tokens"] = PyInt(0 - 3)
        /\ loc[t].tokens.d["totalTokens"] = PyNone
        /\ loc[t].tokens.d["totalTokenCount"] = PyNone
        /\ loc[t].norm.cached_tokens = 8
        /\ loc[t].norm.reasoning_tokens = 4
        /\ loc[t].norm.total_tokens = 7

\* The mapping has exactly the five fields, each an integer >= 0.
FiveNonNegative(stats) ==
    /\ DOMAIN stats = {"input_tokens", "output_tokens", "reasoning_tokens",
                       "cached_tokens", "total_tokens"}
    /\ \A field \in DOMAIN stats : stats[field] \in Nat

\* C14: for every input, normalize_token_stats returns a mapping of exactly
\* the five fields input_tokens, output_tokens, reasoning_tokens,
\* cached_tokens and total_tokens, each an integer >= 0, and the tokens of
\* every stored event are such a mapping.
C14_FiveNonNegative ==
    /\ \A t \in Threads :
        loc[t].op = "normalize_token_stats" =>
            /\ pc[t] # "raised"
            /\ FiveNonNegative(loc[t].norm)
    /\ \A i \in 1..Len(events.items) : FiveNonNegative(events.items[i].tokens)

\* What holds of C14: a call with None or a dict returns the five fields,
\* each >= 0, whatever the values in the dict.
C14_DictGivesFiveNonNegative ==
    \A t \in Threads :
        loc[t].op = "normalize_token_stats" /\ loc[t].tokens.k # "other" =>
            /\ pc[t] # "raised"
            /\ FiveNonNegative(loc[t].norm)

\* a <= b on floats.
FloatLe(a, b) == a.k = "num" /\ b.k = "num" /\ a.n <= b.n

\* C15: in every reachable state the stored events are in non-decreasing
\* order of their timestamps, also when every record call omits the
\* timestamp and several producers record concurrently.
C15_TimeOrdered ==
    \A i, j \in 1..Len(events.items) :
        i < j => FloatLe(events.items[i].timestamp, events.items[j].timestamp)

\* The number its caller gave the record call of a stored event.
CallNumber(event) == DigitVal(event.auth_index[1])

\* C16: with no reset, once all of k <= capacity record calls of the
\* producers have returned, the store holds exactly k events, one of each
\* call, and the events of one producer are in the order that producer
\* issued their calls.
C16_NoneLostNoneDuplicated ==
    (built <= max_details /\ \A t \in Threads : pc[t] = "idle") =>
        LET items == events.items
        IN  /\ Len(items) = built
            /\ \A number \in 1..built :
                   Cardinality({i \in 1..Len(items) : CallNumber(items[i]) = number}) = 1
            /\ \A i, j \in 1..Len(items) :
                   i < j /\ items[i].source = items[j].source =>
                       CallNumber(items[i]) < CallNumber(items[j])

\* All of three calls have returned: two of one producer and, appended
\* between them, one of the other, which was issued before both.
C16_Witness ==
    /\ \A t \in Threads : pc[t] = "idle"
    /\ built = 3
    /\ Len(events.items) = 3
    /\ events.items[1].source = events.items[3].source
    /\ events.items[2].source # events.items[1].source
    /\ CallNumber(events.items[2]) = 1

\* Thread t is in a call of a view before the step or after it.
InView(t) == loc[t].op \in Views \/ loc'[t].op \in Views

\* A step of a view leaves the deque, its order and its maxlen as they
\* were, and the step that copies takes the whole deque as it is then.
ViewStep ==
    \A t \in Threads :
        (InView(t) /\ <<pc[t], loc[t]>> # <<pc'[t], loc'[t]>>) =>
            /\ events' = events
            /\ max_details' = max_details
            /\ (pc[t] = "copy_lock" /\ pc'[t] = "copy_exit") =>
                   loc'[t].copy = events.items

\* C17: no step of get_stats_24h, get_aggregated_24h or snapshot changes
\* the store's events, their order or the capacity, and each view
\* aggregates the store as it is when it copies; so two views with no
\* record or reset between them aggregate the same list.
C17_ViewsSideEffectFree == [][ViewStep]_vars

\* Two view calls with no record or reset between them have returned: both
\* aggregated the same three events, which the store still holds.
C17_Witness ==
    \E t, u \in Threads :
        /\ t # u
        /\ pc[t] = "view_exit" /\ loc[t].op = "snapshot"
        /\ pc[u] = "view_exit" /\ loc[u].op = "get_stats_24h"
        /\ Len(events.items) = 3
        /\ loc[t].copy = events.items
        /\ loc[u].copy = events.items

\* The lock is held only by a thread inside its append, clear/filter or
\* copy step.
LockHeldInside == lock # NoThread => pc[lock] \in InLock

\* C18: of a finite set of concurrent record, reset, get_stats_24h,
\* get_aggregated_24h and snapshot calls scheduled fairly, each call
\* returns at some time, so that in the end no call is under way; and the
\* lock is free whenever no call is inside its append, clear/filter or copy
\* step.
C18_CallsReturnLockFree ==
    /\ \A t \in Threads : (pc[t] # "idle") ~> (pc[t] = "idle")
    /\ <>[](\A t \in Threads : pc[t] = "idle")
    /\ []LockHeldInside

\* A record call waits for the lock while a reset by the other thread is
\* between its filter and its rebuild, the last calls of the set.
C18_Witness ==
    \E t, u \in Threads :
        /\ pc[t] = "rec_lock"
        /\ pc[u] = "reset_assign"
        /\ lock = u
        /\ budget = 0

\* C19: whatever timestamps the record calls that returned were given, a
\* NaN among them, and whatever resets ran, snapshot() and get_stats_24h()
\* return a result and do not raise.
C19_ViewsNeverRaise ==
    \A t \in Threads : loc[t].op \in Views => pc[t] # "raised"

\* The sum of a field over the entries of a dict of records.
RECURSIVE SumField(_, _)
SumField(d, field) ==
    IF DOMAIN d = {} THEN 0
    ELSE LET key == CHOOSE x \in DOMAIN d : TRUE
         IN  d[key][field] + SumField([x \in DOMAIN d \ {key} |-> d[x]], field)

\* The sum of total_tokens over the details of a list.
RECURSIVE SumDetailTokens(_)
SumDetailTokens(details) ==
    IF details = <<>> THEN 0
    ELSE Head(details).tokens.total_tokens + SumDetailTokens(Tail(details))

\* C20: in every snapshot() result total_requests is the sum of the apis'
\* total_requests, each api's total_requests the sum of its models', each
\* model's total_requests the length of its details; total_tokens is the
\* sum of the apis' total_tokens, each api's the sum of its models', each
\* model's the sum of its details' total_tokens; and total_tokens is the sum
\* of the values of tokens_by_day and of tokens_by_hour.
C20_NestedTotalsConsistent ==
    \A t \in Threads :
        SnapshotDone(t) =>
            LET r == loc[t].snap
            IN  /\ SumField(r.apis, "total_requests") = r.total_requests
                /\ SumField(r.apis, "total_tokens") = r.total_tokens
                /\ SumValues(r.tokens_by_day) = r.total_tokens
                /\ SumValues(r.tokens_by_hour) = r.total_tokens
                /\ \A api \in DOMAIN r.apis :
                    LET models == r.apis[api].models
                    IN  /\ SumField(models, "total_requests") = r.apis[api].total_requests
                        /\ SumField(models, "total_tokens") = r.apis[api].total_tokens
                        /\ \A model \in DOMAIN models :
                            /\ models[model].total_requests = Len(models[model].details)
                            /\ models[model].total_tokens =
                                   SumDetailTokens(models[model].details)

\* A snapshot of three events with tokens, of two apis, one of them with
\* two models, recorded in two hours.
C20_Witness ==
    \E t \in Threads :
        /\ SnapshotDone(t)
        /\ loc[t].snap.total_tokens = 8
        /\ Cardinality(DOMAIN loc[t].snap.apis) = 2
        /\ \E api \in DOMAIN loc[t].snap.apis :
               Cardinality(DOMAIN loc[t].snap.apis[api].models) = 2
        /\ Cardinality(DOMAIN loc[t].snap.tokens_by_hour) = 2

=============================================================================
